---- MODULE Spec2Model ----
(***************************************************************************)
(* The neuromorphic core of OsteoFlow (neuromorphic_core.py): HfO2         *)
(* memristors, Bayesian neurons and the chip that owns them.               *)
(*                                                                         *)
(* Floating-point quantities are kept in fixed point:                      *)
(*   resistance            ohm                                             *)
(*   filament              nS   (10^9 / ohm)                               *)
(*   voltage, input values mV                                              *)
(*   read current          nA   (mV * 10^6 / ohm)                          *)
(*   synaptic current, potential, threshold, x    10^-3                    *)
(*   probability, firing draw                     10^-3                    *)
(*   degradation draw                             10^-4                    *)
(*   power_draw            pW   (10^-12 W)                                 *)
(*   temperature           kelvin + pico (10^-12 K)                        *)
(* Python lists keep their 0-based indices (functions on 0..n-1); an      *)
(* input vector is a sequence, entry i of the code being vec[i+1].         *)
(* history is kept run-length encoded, a sequence of <<value, count>>      *)
(* runs, which stands for the same list entry by entry.                    *)
(***************************************************************************)
EXTENDS Integers, Sequences, FiniteSets, TLC

VARIABLES
    props,          \* MaterialProperties in force (the dataclass defaults)
    mem,            \* one HfO2Memristor built on its own, with any target
    layers,         \* NeuromorphicChip.layers: layer -> index -> neuron
    total_neurons,  \* NeuromorphicChip.total_neurons
    temperature,    \* NeuromorphicChip.temperature
    power_draw,     \* NeuromorphicChip.power_draw
    last,           \* the last call: operation, target, arguments, result
    budget,         \* number of calls the behaviour may still make
    twin,           \* a second NeuromorphicChip built from the same draws, if any
    latency,        \* what the last process_random_spike of chip and twin returned
    compiler,       \* one OsteoflowCompiler, and where its compile call stands
    vm              \* one OsteoflowVM

vars == <<budget, props, mem, layers, total_neurons, temperature, power_draw, last,
          twin, latency, compiler, vm>>

chip == <<layers, total_neurons, temperature, power_draw>>

pair == <<twin, latency>>

tools == <<compiler, vm>>

(***************************************************************************)
(* Bounds of the model.                                                    *)
(***************************************************************************)
NumLayers == 2          \* num_layers, scaled down from 8
NeuronsPerLayer == 2    \* neurons_per_layer, scaled down from 1250
NumSynapses == 2        \* synapses per neuron, scaled down from 100
MaxOps == 2             \* calls per behaviour of the whole interface
MaxElemOps == 4         \* calls per behaviour of a single memristor
MaxDriveOps == 3        \* calls per behaviour of the chip alone
MaxPairOps == 2         \* calls per behaviour of two chips driven alike
MaxSetPulses == 5       \* SET pulses in a row on a single memristor
MaxCompiles == 2        \* compile calls on one compiler
MaxVmOps == 4           \* load_program and run calls on one VM
ProgramCap == 128       \* pulses after which a programming loop is given up
NumSeeds == 2           \* random streams a chip is built from
AgedBefore == 1         \* an aged element starts this many pulses before
                        \* the degradation check first applies

(***************************************************************************)
(* Program constants.                                                      *)
(***************************************************************************)
R_MIN == 10000              \* hfo2_resistance_range[0]
R_MAX == 1000000            \* hfo2_resistance_range[1]
TARGET_R == 100000          \* hfo2_target_resistance
DEGRADE_AFTER == 10000      \* cycles > 10000
FAIL_PROB == 1              \* 0.0001, in 10^-4
SET_ABOVE == 1000           \* voltage > 1.0
SET_PCT == 97               \* resistance *= 0.97
RESET_PCT == 103            \* resistance *= 1.03
READ_DEFAULT == 200         \* read(voltage = 0.2)
AMBIENT_DEFAULT == 300      \* thermal_simulation(ambient = 300), temperature = 300
KELVIN_OFFSET == 273        \* temperature - 273
SPIKE_ENERGY == 10          \* 1e-12 * 10, in pW
INPUT_HIGH == 500           \* np.random.random(100) * 0.5
THR_LOW == 300              \* np.random.uniform(0.3, 0.7)
THR_HIGH == 700
STEEPNESS == 5              \* (potential - threshold) * 5
SYN_R_LOW == 100000         \* compiler: 10e3, the resistance of weight 1.0, in 0.1 ohm
SYN_R_HIGH == 10000000      \* compiler: 1e6, the resistance of weight 0.0, in 0.1 ohm
PROG_START == 1000000       \* compiler: R = 100e3, in 0.1 ohm
PROG_WINDOW_PCT == 1        \* compiler: 0.01 * target_R
PROG_SET_PCT == 97          \* compiler: R *= 0.97
PROG_RESET_PCT == 103       \* compiler: R *= 1.03
PROG_VOLTS == 1500          \* compiler: 'voltage': 1.5 and -1.5
PROG_NS == 10               \* compiler: 'duration': 10e-9
ACTUATE_VOLTS == 3300       \* compiler: 'voltage': 3.3
ACTUATE_NS == 100           \* compiler: dose * 100e-6, per 10^-3 of dose
WAIT_NS == 1000             \* compiler: time_us * 1e-6
RUN_DEFAULT == 1000         \* vm: run(max_steps = 1000)

DefaultProps ==
    [ hfo2_resistance_range  |-> <<R_MIN, R_MAX>>,
      hfo2_target_resistance |-> TARGET_R,
      num_layers             |-> NumLayers,
      neurons_per_layer      |-> NeuronsPerLayer ]

(***************************************************************************)
(* Arithmetic helpers.                                                     *)
(***************************************************************************)
Min(a, b) == IF a <= b THEN a ELSE b
Max(a, b) == IF a >= b THEN a ELSE b

\* np.clip(x, lo, hi) = minimum(hi, maximum(x, lo)); no check that lo <= hi
Clip(x, lo, hi) == Min(hi, Max(x, lo))

\* 1.0 / resistance
Recip(r) == 1000000000 \div r

(***************************************************************************)
(* history, run-length encoded.                                            *)
(***************************************************************************)
\* the list [r] repeated n times appended to h
HistAppendN(h, r, n) ==
    IF n = 0 THEN h
    ELSE IF Len(h) > 0 /\ h[Len(h)][1] = r
         THEN [h EXCEPT ![Len(h)] = <<r, h[Len(h)][2] + n>>]
         ELSE Append(h, <<r, n>>)

\* history.append(r)
HistAppend(h, r) == HistAppendN(h, r, 1)

RECURSIVE HistLen(_)
HistLen(h) == IF h = <<>> THEN 0 ELSE h[Len(h)][2] + HistLen(SubSeq(h, 1, Len(h) - 1))

HistLast(h) == h[Len(h)][1]

\* history[i - 1], i counting from 1
RECURSIVE HistAt(_, _)
HistAt(h, i) == IF i <= h[1][2] THEN h[1][1] ELSE HistAt(Tail(h), i - h[1][2])

\* list g starts with list h
HistPrefix(h, g) ==
    \/ h = <<>>
    \/ /\ Len(h) <= Len(g)
       /\ \A k \in 1..(Len(h) - 1) : g[k] = h[k]
       /\ g[Len(h)][1] = h[Len(h)][1]
       /\ g[Len(h)][2] >= h[Len(h)][2]

(***************************************************************************)
(* HfO2Memristor                                                           *)
(***************************************************************************)
NoTarget == 0       \* target_resistance = None (or 0.0): falsy, the default is used

\* NewMemristor without the clip into the construction envelope
NewMemristorNoClip(p, target, factor) ==
    LET tgt == IF target = NoTarget THEN p.hfo2_target_resistance ELSE target
        r   == (tgt * factor) \div 1000
    IN  [ resistance |-> r,
          filament   |-> Recip(r),
          cycles     |-> 0,
          degraded   |-> FALSE,
          history    |-> <<<<r, 1>>>> ]

\* __init__: factor is 10 ** normal(0, log_std), in 10^-3
NewMemristor(p, target, factor) ==
    LET r_min == p.hfo2_resistance_range[1]
        r_max == p.hfo2_resistance_range[2]
        tgt   == IF target = NoTarget THEN p.hfo2_target_resistance ELSE target
        r     == Clip((tgt * factor) \div 1000, (r_min * 9) \div 10, (r_max * 11) \div 10)
    IN  [ resistance |-> r,
          filament   |-> Recip(r),
          cycles     |-> 0,
          degraded   |-> FALSE,
          history    |-> <<<<r, 1>>>> ]

\* Stepped with the SET and RESET thresholds inclusive
SteppedInclusive(r, voltage) ==
    IF voltage >= SET_ABOVE THEN (r * SET_PCT) \div 100
    ELSE IF voltage <= -SET_ABOVE THEN (r * RESET_PCT) \div 100
    ELSE r

\* Stepped with the factors of SET and RESET exchanged
SteppedSwapped(r, voltage) ==
    IF voltage > SET_ABOVE THEN (r * RESET_PCT) \div 100
    ELSE IF voltage < -SET_ABOVE THEN (r * SET_PCT) \div 100
    ELSE r

\* Stepped with steps of 3% of the default target, not of the resistance
SteppedLinear(r, voltage) ==
    IF voltage > SET_ABOVE THEN r - (TARGET_R * (100 - SET_PCT)) \div 100
    ELSE IF voltage < -SET_ABOVE THEN r + (TARGET_R * (RESET_PCT - 100)) \div 100
    ELSE r

\* the resistance after the SET / RESET step of pulse
Stepped(r, voltage) ==
    IF voltage > SET_ABOVE THEN (r * SET_PCT) \div 100
    ELSE IF voltage < -SET_ABOVE THEN (r * RESET_PCT) \div 100
    ELSE r

\* Fails with the check applying from the 10000th pulse on
FailsInclusive(cycles, roll) == cycles >= DEGRADE_AFTER /\ roll < FAIL_PROB

\* the degradation check of pulse; roll is np.random.random(), in 10^-4
Fails(cycles, roll) == cycles > DEGRADE_AFTER /\ roll < FAIL_PROB

\* PulseElem without the clip into the operating range
PulseElemNoClip(p, e, voltage, roll) ==
    IF e.degraded THEN e
    ELSE LET c == e.cycles + 1
             r == Stepped(e.resistance, voltage)
         IN  [ resistance |-> r,
               filament   |-> Recip(r),
               cycles     |-> c,
               degraded   |-> Fails(c, roll),
               history    |-> HistAppend(e.history, r) ]

\* PulseElem without the early return of a degraded element
PulseElemNoGuard(p, e, voltage, roll) ==
    LET c == e.cycles + 1
        r == Clip(Stepped(e.resistance, voltage),
                  p.hfo2_resistance_range[1], p.hfo2_resistance_range[2])
    IN  [ resistance |-> r,
          filament   |-> Recip(r),
          cycles     |-> c,
          degraded   |-> e.degraded \/ Fails(c, roll),
          history    |-> HistAppend(e.history, r) ]

\* PulseElem returning as soon as the element degrades, before filament
\* is recomputed
PulseElemStaleFilament(p, e, voltage, roll) ==
    IF e.degraded THEN e
    ELSE LET c == e.cycles + 1
             r == Clip(Stepped(e.resistance, voltage),
                       p.hfo2_resistance_range[1], p.hfo2_resistance_range[2])
         IN  [ resistance |-> r,
               filament   |-> IF Fails(c, roll) THEN e.filament ELSE Recip(r),
               cycles     |-> c,
               degraded   |-> Fails(c, roll),
               history    |-> HistAppend(e.history, r) ]

\* PulseElem returning as soon as the element degrades, before the
\* resistance is appended to history
PulseElemSkipsHistory(p, e, voltage, roll) ==
    IF e.degraded THEN e
    ELSE LET c == e.cycles + 1
             r == Clip(Stepped(e.resistance, voltage),
                       p.hfo2_resistance_range[1], p.hfo2_resistance_range[2])
         IN  [ resistance |-> r,
               filament   |-> Recip(r),
               cycles     |-> c,
               degraded   |-> Fails(c, roll),
               history    |-> IF Fails(c, roll) THEN e.history ELSE HistAppend(e.history, r) ]

\* pulse(voltage): the element after the call
PulseElem(p, e, voltage, roll) ==
    IF e.degraded THEN e
    ELSE LET c == e.cycles + 1
             r == Clip(Stepped(e.resistance, voltage),
                       p.hfo2_resistance_range[1], p.hfo2_resistance_range[2])
         IN  [ resistance |-> r,
               filament   |-> Recip(r),
               cycles     |-> c,
               degraded   |-> Fails(c, roll),
               history    |-> HistAppend(e.history, r) ]

\* ReadElem without the check of degraded
ReadElemNoGuard(e, voltage) == (voltage * 1000000) \div e.resistance

\* read(voltage): the value returned
ReadElem(e, voltage) ==
    IF e.degraded THEN 0 ELSE (voltage * 1000000) \div e.resistance

\* the element e after n pulses of 0 V, none of which reaches the
\* degradation check (e.cycles + n <= DEGRADE_AFTER)
AfterIdlePulses(p, e, n) ==
    IF n = 0 THEN e
    ELSE LET r == Clip(e.resistance, p.hfo2_resistance_range[1], p.hfo2_resistance_range[2])
         IN  [ resistance |-> r,
               filament   |-> Recip(r),
               cycles     |-> e.cycles + n,
               degraded   |-> FALSE,
               history    |-> HistAppendN(e.history, r, n) ]

(***************************************************************************)
(* The random stream a chip is built from: the draws of construction, in   *)
(* the order the constructors make them, as a function of the seed.        *)
(***************************************************************************)
Seeds == 0..(NumSeeds - 1)

\* 10 ** np.random.normal(0, log_std) of the k-th memristor built, in 10^-3
FactorOf(seed, k) == <<1000, 950, 1050>>[((seed + k) % 3) + 1]

\* np.random.uniform(0.3, 0.7) of neuron neuron_id
ThresholdOf(seed, neuron_id) ==
    <<THR_LOW, (THR_LOW + THR_HIGH) \div 2, THR_HIGH - 1>>[((seed + neuron_id) % 3) + 1]

(***************************************************************************)
(* BayesianNeuron                                                          *)
(***************************************************************************)
\* __init__(neuron_id, layer)
NewNeuron(p, neuron_id, layer, seed) ==
    [ id          |-> neuron_id,
      layer       |-> layer,
      synapses    |-> [i \in 0..(NumSynapses - 1) |->
                          NewMemristor(p, NoTarget, FactorOf(seed, neuron_id * NumSynapses + i))],
      threshold   |-> ThresholdOf(seed, neuron_id),
      potential   |-> 0,
      spike_count |-> 0 ]

\* len(self.synapses)
NSyn(neuron) == Cardinality(DOMAIN neuron.synapses)

\* Current taken through read, which yields 0 on a degraded synapse
CurrentViaRead(syn, val) == IF syn.degraded THEN 0 ELSE val \div syn.resistance

\* val / self.synapses[i].resistance
Current(syn, val) == val \div syn.resistance

RECURSIVE SumCurrents(_, _, _)
SumCurrents(neuron, inputs, n) ==
    IF n = 0 THEN 0
    ELSE SumCurrents(neuron, inputs, n - 1) + Current(neuron.synapses[n - 1], inputs[n])

\* total_current of process, over inputs[:len(self.synapses)]
TotalCurrent(neuron, inputs) ==
    SumCurrents(neuron, inputs, Min(Len(inputs), NSyn(neuron)))

\* 0.9 * potential + 0.1 * total_current
Leak(potential, total_current) == (9 * potential + total_current) \div 10

\* 1 / (1 + exp(-x)) at the integers -8..8, in 10^-3
SigmoidKnots == <<0, 1, 2, 7, 18, 47, 119, 269, 500, 731, 881, 953, 982, 993, 998, 999, 1000>>

\* 1.0 / (1.0 + np.exp(-x)): linear between the knots, 0 and 1 beyond them
Sigmoid(x) ==
    IF x <= -8000 THEN 0
    ELSE IF x >= 8000 THEN 1000
    ELSE LET k  == (x + 8000) \div 1000
             fr == (x + 8000) % 1000
             lo == SigmoidKnots[k + 1]
             hi == SigmoidKnots[k + 2]
         IN  lo + ((hi - lo) * fr) \div 1000

\* prob of process, from the integrated potential
FireProb(neuron, potential) == Sigmoid((potential - neuron.threshold) * STEEPNESS)

\* Fires with a draw equal to prob firing too
FiresInclusive(draw, prob) == draw <= prob

\* np.random.random() < prob
Fires(draw, prob) == draw < prob

\* ProcessNeuron with the integrated potential dropped when the neuron
\* does not fire
ProcessNeuronKeepsPotential(neuron, inputs, draw) ==
    LET pot  == Leak(neuron.potential, TotalCurrent(neuron, inputs))
        prob == FireProb(neuron, pot)
    IN  IF Fires(draw, prob)
        THEN [ neuron |-> [neuron EXCEPT !.spike_count = @ + 1, !.potential = 0],
               ret    |-> prob ]
        ELSE [ neuron |-> neuron,
               ret    |-> 0 ]

\* ProcessNeuron with a threshold that rises with every spike
ProcessNeuronAdapts(neuron, inputs, draw) ==
    LET pot  == Leak(neuron.potential, TotalCurrent(neuron, inputs))
        prob == FireProb(neuron, pot)
    IN  IF Fires(draw, prob)
        THEN [ neuron |-> [neuron EXCEPT !.spike_count = @ + 1, !.potential = 0,
                                         !.threshold = @ + 1],
               ret    |-> prob ]
        ELSE [ neuron |-> [neuron EXCEPT !.potential = pot],
               ret    |-> 0 ]

\* ProcessNeuron returning prob whether the neuron fired or not
ProcessNeuronReturnsProb(neuron, inputs, draw) ==
    LET pot  == Leak(neuron.potential, TotalCurrent(neuron, inputs))
        prob == FireProb(neuron, pot)
    IN  IF Fires(draw, prob)
        THEN [ neuron |-> [neuron EXCEPT !.spike_count = @ + 1, !.potential = 0],
               ret    |-> prob ]
        ELSE [ neuron |-> [neuron EXCEPT !.potential = pot],
               ret    |-> prob ]

\* process(inputs): the neuron after the call and the value returned
ProcessNeuron(neuron, inputs, draw) ==
    LET pot  == Leak(neuron.potential, TotalCurrent(neuron, inputs))
        prob == FireProb(neuron, pot)
    IN  IF Fires(draw, prob)
        THEN [ neuron |-> [neuron EXCEPT !.spike_count = @ + 1, !.potential = 0],
               ret    |-> prob ]
        ELSE [ neuron |-> [neuron EXCEPT !.potential = pot],
               ret    |-> 0 ]

(***************************************************************************)
(* NeuromorphicChip                                                        *)
(***************************************************************************)
\* total before layer `layer` is built: total += len(layer_neurons) per layer
RECURSIVE TotalBefore(_, _)
TotalBefore(p, layer) ==
    IF layer = 0 THEN 0
    ELSE TotalBefore(p, layer - 1) + Max(p.neurons_per_layer, 0)

\* NewLayers with the ids starting at 0 in every layer
NewLayersLocalIds(p, seed) ==
    [layer \in 0..(p.num_layers - 1) |->
        [i \in 0..(p.neurons_per_layer - 1) |-> NewNeuron(p, i, layer, seed)]]

\* self.layers of __init__
NewLayers(p, seed) ==
    [layer \in 0..(p.num_layers - 1) |->
        [i \in 0..(p.neurons_per_layer - 1) |->
            NewNeuron(p, TotalBefore(p, layer) + i, layer, seed)]]

\* self.total_neurons of __init__
NewTotal(p) == TotalBefore(p, Max(p.num_layers, 0))

\* a temperature: kelvin + pico * 10^-12
Temp(kelvin, pico) == [kelvin |-> kelvin, pico |-> pico]

\* ambient + (self.power_draw * 0.1)
Thermal(ambient, power) == Temp(ambient, power \div 10)

\* Celsius without the offset: the temperature in kelvin
CelsiusKelvin(t) == t

\* self.temperature - 273
Celsius(t) == Temp(t.kelvin - KELVIN_OFFSET, t.pico)

\* every synapse of the chip, as <<layer, index, synapse>>
Sites(ls) ==
    {<<l, n, i>> \in (DOMAIN ls) \X (0..(NeuronsPerLayer - 1)) \X (0..(NumSynapses - 1)) :
        n \in DOMAIN ls[l] /\ i \in DOMAIN ls[l][n].synapses}

SynAt(ls, s) == ls[s[1]][s[2]].synapses[s[3]]

RECURSIVE SumOver(_, _)
SumOver(f, S) ==
    IF S = {} THEN 0
    ELSE LET x == CHOOSE y \in S : TRUE IN f[x] + SumOver(f, S \ {x})

\* integer square root
ISqrt(v) == CHOOSE r \in 0..2000 : r * r <= v /\ (r + 1) * (r + 1) > v

\* StatsOf with the degraded synapses counted against the neurons
StatsOfPerNeuron(ls, total, power) ==
    LET S      == Sites(ls)
        count  == Cardinality(S)
        mean   == SumOver([s \in S |-> SynAt(ls, s).resistance], S) \div count
        var    == SumOver([s \in S |-> ((SynAt(ls, s).resistance - mean) \div 1000)
                                        * ((SynAt(ls, s).resistance - mean) \div 1000)], S)
                  \div count
        std    == ISqrt(var) * 1000
        broken == Cardinality({s \in S : SynAt(ls, s).degraded})
    IN  [ neurons             |-> total,
          synapses            |-> count,
          mean_resistance     |-> mean,
          std_resistance      |-> std,
          variability_percent |-> (std * 100) \div mean,
          degraded_percent    |-> (broken * 100) \div total,
          power_W             |-> power ]

\* the dict get_stats returns (resistance spread in kilo-ohm), before
\* 'temperature_C' is filled in
StatsOf(ls, total, power) ==
    LET S      == Sites(ls)
        count  == Cardinality(S)
        mean   == SumOver([s \in S |-> SynAt(ls, s).resistance], S) \div count
        var    == SumOver([s \in S |-> ((SynAt(ls, s).resistance - mean) \div 1000)
                                        * ((SynAt(ls, s).resistance - mean) \div 1000)], S)
                  \div count
        std    == ISqrt(var) * 1000
        broken == Cardinality({s \in S : SynAt(ls, s).degraded})
    IN  [ neurons             |-> total,
          synapses            |-> count,
          mean_resistance     |-> mean,
          std_resistance      |-> std,
          variability_percent |-> (std * 100) \div mean,
          degraded_percent    |-> (broken * 100) \div count,
          power_W             |-> power ]

(***************************************************************************)
(* OsteoflowCompiler. A line of an .ofl file is the tuple of its tokens    *)
(* after strip() and split(): <<>> for a blank line, <<";">> for a         *)
(* comment; weights and doses are in 10^-3, durations in ns, R and         *)
(* target_R in 0.1 ohm, products rounded to the nearest.                   *)
(***************************************************************************)
Abs(x) == IF x < 0 THEN -x ELSE x

\* __init__; mode, lines, i, R, target_R and base are where a compile call
\* stands: its local variables and those of _program_resistance
NewCompiler ==
    [ neurons  |-> {},
      synapses |-> <<>>,
      pulses   |-> <<>>,
      labels   |-> <<>>,
      mode     |-> "idle",
      lines    |-> <<>>,
      i        |-> 0,
      R        |-> 0,
      target_R |-> 0,
      base     |-> 0 ]

\* parts[0], "" for a blank line
Cmd(line) == IF Len(line) = 0 THEN "" ELSE line[1]

\* the first pass of compile: self.labels[label] = i, later lines winning
LabelsOf(lines, labels) ==
    LET at   == {k \in 1..Len(lines) : Cmd(lines[k]) = "LABEL"}
        seen == {lines[k][2] : k \in at}
        new  == [lab \in seen |->
                    (CHOOSE k \in at : lines[k][2] = lab
                                       /\ \A j \in at : lines[j][2] = lab => j <= k) - 1]
    IN  new @@ labels

\* target_R of _cmd_synapse
TargetR(weight) == SYN_R_LOW + ((SYN_R_HIGH - SYN_R_LOW) \div 1000) * (1000 - weight)

\* OffTarget leaving the loop only at the target itself
OffTargetExact(R, target_R) == R # target_R

\* abs(R - target_R) > 0.01 * target_R
OffTarget(R, target_R) == Abs(R - target_R) * 100 > PROG_WINDOW_PCT * target_R

SetPulse == [type |-> "SET", voltage |-> PROG_VOLTS, duration |-> PROG_NS]
ResetPulse == [type |-> "RESET", voltage |-> -PROG_VOLTS, duration |-> PROG_NS]

\* the pulse one turn of the loop of _program_resistance appends
ProgramPulse(R, target_R) == IF R > target_R THEN SetPulse ELSE ResetPulse

\* R after that turn
ProgramStepped(R, target_R) ==
    IF R > target_R THEN (R * PROG_SET_PCT + 50) \div 100
    ELSE (R * PROG_RESET_PCT + 50) \div 100

\* the pulse _cmd_release appends
ActuatePulse(actuator, dose) ==
    [type |-> "ACTUATE", actuator |-> actuator, voltage |-> ACTUATE_VOLTS,
     duration |-> dose * ACTUATE_NS]

\* the pulse _cmd_wait appends
WaitPulse(time_us) == [type |-> "WAIT", duration |-> time_us * WAIT_NS]

(***************************************************************************)
(* OsteoflowVM                                                             *)
(***************************************************************************)
\* __init__
NewVM == [program |-> <<>>, pc |-> 0, current_time |-> 0]

\* the number of pulses run(max_steps) executes from pc on
RunCount(v, max_steps) == Max(0, Min(Len(v.program) - v.pc, max_steps))

\* the time the WAIT pulses among program[from .. from + n - 1] add
RECURSIVE WaitTime(_, _, _)
WaitTime(program, from, n) ==
    IF n = 0 THEN 0
    ELSE WaitTime(program, from, n - 1)
         + (IF program[from + n].type = "WAIT" THEN program[from + n].duration ELSE 0)

(***************************************************************************)
(* The inputs the calls are made with.                                     *)
(***************************************************************************)
NoDraw == -1        \* the call consumed no random number
None == 0           \* what a call without a return value returns

Voltages == {-1500, -1000, 1000, 1500}
ReadVoltages == {READ_DEFAULT, 1500}
Rolls == {0, 5000}
Draws == {0, 100, 999}
Ambients == {AMBIENT_DEFAULT, 310}

\* targets a single memristor is built with
Targets == {NoTarget, 5000, 10000, 100000, 1000000, 1500000}
Factors == {950, 1000, 1050}

Vec(n, v) == [k \in 1..n |-> v]

\* input vectors of process: shorter than, as long as and longer than the
\* synapse bank
InputVecs ==
    {Vec(0, 0), Vec(NumSynapses - 1, 500000000), Vec(NumSynapses, 20000000),
     Vec(NumSynapses + 1, 500000000), Vec(NumSynapses, 2000000000),
     Vec(NumSynapses, -2000000000)}

\* np.random.random(100) * 0.5
StimulusVecs == {Vec(NumSynapses, 0), Vec(NumSynapses, INPUT_HIGH - 1)}

\* the synapses pulsed and read from outside
PulseSites == {<<0, 0, 0>>, <<0, 0, NumSynapses - 1>>}

\* the neurons processed from outside: the one with those synapses and the
\* last one built
ProcessSites == {<<0, 0>>, <<NumLayers - 1, NeuronsPerLayer - 1>>}

Call(op, at, arg, draw, ret, err) ==
    [op |-> op, at |-> at, arg |-> arg, draw |-> draw, ret |-> ret, err |-> err]

(***************************************************************************)
(* Initial states.                                                         *)
(***************************************************************************)
\* pulses an element may have taken before the first call: none, or so
\* many that the degradation check is at most AgedBefore pulses away
AgedCycles == {0} \cup {DEGRADE_AFTER - k : k \in 0..AgedBefore}

\* the chip as built with the synapses of PulseSites having taken `aged`
\* pulses of 0 V since
AgedLayers(p, ls, aged) ==
    [l \in DOMAIN ls |-> [n \in DOMAIN ls[l] |->
        [ls[l][n] EXCEPT !.synapses =
            [i \in DOMAIN ls[l][n].synapses |->
                IF <<l, n, i>> \in PulseSites
                THEN AfterIdlePulses(p, ls[l][n].synapses[i], aged)
                ELSE ls[l][n].synapses[i]]]]]

\* a NeuromorphicChip as a value
ChipOf(ls, total, temp, power) ==
    [layers |-> ls, total_neurons |-> total, temperature |-> temp, power_draw |-> power]

\* NeuromorphicChip() under the random stream `seed`, aged as above
NewChip(p, seed, aged) ==
    ChipOf(AgedLayers(p, NewLayers(p, seed), aged), NewTotal(p), Temp(AMBIENT_DEFAULT, 0), 0)

InitChip(p, seed, aged) ==
    /\ props = p
    /\ layers = AgedLayers(p, NewLayers(p, seed), aged)
    /\ total_neurons = NewTotal(p)
    /\ temperature = Temp(AMBIENT_DEFAULT, 0)
    /\ power_draw = 0

InitCall(calls) ==
    /\ last = Call("init", <<>>, <<>>, NoDraw, None, "")
    /\ budget = calls
    /\ latency = <<0, 0>>
    /\ compiler = NewCompiler
    /\ vm = NewVM

\* a chip of the default configuration, and beside it a default memristor
InitFull(calls) ==
    /\ \E seed \in Seeds, aged \in AgedCycles : InitChip(DefaultProps, seed, aged)
    /\ mem = NewMemristor(DefaultProps, NoTarget, 1000)
    /\ twin = None
    /\ InitCall(calls)

Init == InitFull(MaxOps)

InitDrive == InitFull(MaxDriveOps)

\* a single memristor of any target, fresh or aged, beside a default chip
\* as built
InitElem ==
    /\ InitChip(DefaultProps, 0, 0)
    /\ \E target \in Targets, factor \in Factors, aged \in AgedCycles :
          mem = AfterIdlePulses(DefaultProps, NewMemristor(DefaultProps, target, factor), aged)
    /\ twin = None
    /\ InitCall(MaxElemOps)

(***************************************************************************)
(* The calls.                                                              *)
(***************************************************************************)
\* whether pulse reaches np.random.random()
Rolled(e) == ~e.degraded /\ e.cycles + 1 > DEGRADE_AFTER

\* mem = HfO2Memristor(target)
NewMem(target, factor) ==
    /\ budget > 0
    /\ mem' = NewMemristor(props, target, factor)
    /\ last' = Call("new", <<>>, target, factor, None, "")
    /\ budget' = budget - 1
    /\ UNCHANGED <<props, pair, tools, chip>>

\* mem.pulse(voltage)
PulseMem(voltage, roll) ==
    /\ budget > 0
    /\ mem' = PulseElem(props, mem, voltage, roll)
    /\ last' = Call("pulse", <<>>, voltage, IF Rolled(mem) THEN roll ELSE NoDraw, None, "")
    /\ budget' = budget - 1
    /\ UNCHANGED <<props, pair, tools, chip>>

\* mem.read(voltage)
ReadMem(voltage) ==
    /\ budget > 0
    /\ last' = Call("read", <<>>, voltage, NoDraw, ReadElem(mem, voltage), "")
    /\ budget' = budget - 1
    /\ UNCHANGED <<props, pair, tools, mem, chip>>

\* chip.layers[l][n].synapses[i].pulse(voltage)
PulseSyn(s, voltage, roll) ==
    /\ budget > 0
    /\ s \in Sites(layers)
    /\ layers' = [layers EXCEPT ![s[1]][s[2]].synapses[s[3]] = PulseElem(props, @, voltage, roll)]
    /\ last' = Call("pulse", s, voltage,
                    IF Rolled(SynAt(layers, s)) THEN roll ELSE NoDraw, None, "")
    /\ budget' = budget - 1
    /\ UNCHANGED <<props, pair, tools, mem, total_neurons, temperature, power_draw>>

\* chip.layers[l][n].synapses[i].read(voltage)
ReadSyn(s, voltage) ==
    /\ budget > 0
    /\ s \in Sites(layers)
    /\ last' = Call("read", s, voltage, NoDraw, ReadElem(SynAt(layers, s), voltage), "")
    /\ budget' = budget - 1
    /\ UNCHANGED <<props, pair, tools, mem, chip>>

\* Process refusing an input vector that is not as long as the synapse bank
ProcessStrict(l, n, inputs, draw) ==
    /\ budget > 0
    /\ l \in DOMAIN layers /\ n \in DOMAIN layers[l]
    /\ IF Len(inputs) # NSyn(layers[l][n])
       THEN /\ last' = Call("process", <<l, n>>, inputs, NoDraw, None, "ValueError")
            /\ UNCHANGED layers
       ELSE LET res == ProcessNeuron(layers[l][n], inputs, draw)
            IN  /\ layers' = [layers EXCEPT ![l][n] = res.neuron]
                /\ last' = Call("process", <<l, n>>, inputs, draw, res.ret, "")
    /\ budget' = budget - 1
    /\ UNCHANGED <<props, pair, tools, mem, total_neurons, temperature, power_draw>>

\* chip.layers[l][n].process(inputs)
Process(l, n, inputs, draw) ==
    /\ budget > 0
    /\ l \in DOMAIN layers /\ n \in DOMAIN layers[l]
    /\ LET res == ProcessNeuron(layers[l][n], inputs, draw)
       IN  /\ layers' = [layers EXCEPT ![l][n] = res.neuron]
           /\ last' = Call("process", <<l, n>>, inputs, draw, res.ret, "")
    /\ budget' = budget - 1
    /\ UNCHANGED <<props, pair, tools, mem, total_neurons, temperature, power_draw>>

\* Charged with the energy counter restarted by a silent stimulus
ChargedOrReset(power, spike) == IF spike > 0 THEN power + SPIKE_ENERGY ELSE 0

\* Charged with every stimulus billed, spike or not
ChargedAlways(power, spike) == IF spike >= 0 THEN power + SPIKE_ENERGY ELSE power

\* power_draw after process_random_spike saw `spike`
Charged(power, spike) == IF spike > 0 THEN power + SPIKE_ENERGY ELSE power

\* chip.process_random_spike(); np.random.randint(0, 0) raises ValueError.
\* last.ret is `spike`, what the process call inside returned; the latency
\* the method itself returns is in RandomSpiked
ProcessRandomSpike(l, n, inputs, draw) ==
    /\ budget > 0
    /\ IF props.num_layers <= 0 \/ props.neurons_per_layer <= 0
       THEN /\ last' = Call("process_random_spike", <<>>, <<>>, NoDraw, None, "ValueError")
            /\ UNCHANGED <<layers, power_draw>>
       ELSE /\ l \in 0..(props.num_layers - 1)
            /\ n \in 0..(props.neurons_per_layer - 1)
            /\ LET res == ProcessNeuron(layers[l][n], inputs, draw)
               IN  /\ layers' = [layers EXCEPT ![l][n] = res.neuron]
                   /\ power_draw' = Charged(power_draw, res.ret)
                   /\ last' = Call("process_random_spike", <<l, n>>, inputs, draw, res.ret, "")
    /\ budget' = budget - 1
    /\ UNCHANGED <<props, pair, tools, mem, total_neurons, temperature>>

\* chip.thermal_simulation(ambient)
ThermalSimulation(ambient) ==
    /\ budget > 0
    /\ temperature' = Thermal(ambient, power_draw)
    /\ last' = Call("thermal_simulation", <<>>, ambient, NoDraw, Celsius(temperature'), "")
    /\ budget' = budget - 1
    /\ UNCHANGED <<props, pair, tools, mem, layers, total_neurons, power_draw>>

\* GetStats with the temperature recomputed from the ambient of the last
\* thermal_simulation
GetStatsKeepsAmbient ==
    /\ budget > 0
    /\ temperature' = Thermal(temperature.kelvin, power_draw)
    /\ last' = Call("get_stats", <<>>, <<>>, NoDraw,
                    [temperature_C |-> Celsius(temperature')]
                        @@ StatsOf(layers, total_neurons, power_draw), "")
    /\ budget' = budget - 1
    /\ UNCHANGED <<props, pair, tools, mem, layers, total_neurons, power_draw>>

\* chip.get_stats(); with no synapse at all 0 / 0 raises before the
\* temperature is recomputed
GetStats ==
    /\ budget > 0
    /\ IF Sites(layers) = {}
       THEN /\ last' = Call("get_stats", <<>>, <<>>, NoDraw, None, "ZeroDivisionError")
            /\ UNCHANGED temperature
       ELSE /\ temperature' = Thermal(AMBIENT_DEFAULT, power_draw)
            /\ last' = Call("get_stats", <<>>, <<>>, NoDraw,
                            [temperature_C |-> Celsius(temperature')]
                                @@ StatsOf(layers, total_neurons, power_draw), "")
    /\ budget' = budget - 1
    /\ UNCHANGED <<props, pair, tools, mem, layers, total_neurons, power_draw>>

ElemNext ==
    \/ \E target \in Targets, factor \in Factors : NewMem(target, factor)
    \/ \E v \in Voltages, roll \in Rolls : PulseMem(v, roll)
    \/ \E v \in ReadVoltages : ReadMem(v)

DriveNext ==
    \/ \E l \in 0..(NumLayers - 1), n \in 0..(NeuronsPerLayer - 1),
          vec \in StimulusVecs, draw \in Draws : ProcessRandomSpike(l, n, vec, draw)
    \/ \E a \in Ambients : ThermalSimulation(a)
    \/ GetStats

Next ==
    \/ \E s \in PulseSites, v \in Voltages, roll \in Rolls : PulseSyn(s, v, roll)
    \/ \E s \in PulseSites, v \in ReadVoltages : ReadSyn(s, v)
    \/ \E u \in ProcessSites, vec \in InputVecs, draw \in Draws :
          Process(u[1], u[2], vec, draw)
    \/ \E u \in ProcessSites, vec \in StimulusVecs, draw \in Draws :
          ProcessRandomSpike(u[1], u[2], vec, draw)
    \/ \E a \in Ambients : ThermalSimulation(a)
    \/ GetStats

\* the chip and its synapses under every call of the interface, the
\* stimuli of process_random_spike falling on the neurons of ProcessSites
Spec == Init /\ [][Next]_vars

\* one memristor under construction, pulse and read
SpecElem == InitElem /\ [][ElemNext]_vars

\* the chip under process_random_spike, thermal_simulation and get_stats only
SpecDrive == InitDrive /\ [][DriveNext]_vars

\* voltages above the SET threshold
SetVoltages == {1001, 1500}

\* a single memristor of any target, fresh or aged
InitSet ==
    /\ InitChip(DefaultProps, 0, 0)
    /\ \E target \in Targets, factor \in Factors, aged \in AgedCycles :
          mem = AfterIdlePulses(DefaultProps, NewMemristor(DefaultProps, target, factor), aged)
    /\ twin = None
    /\ InitCall(MaxSetPulses)

SetNext == \E v \in SetVoltages, roll \in Rolls : PulseMem(v, roll)

\* one memristor under SET pulses only
SpecSet == InitSet /\ [][SetNext]_vars

(***************************************************************************)
(* Two chips built from the same draws and driven by the same calls with   *)
(* the same draws. What the two do not share is the wall clock: each       *)
(* process_random_spike reads time.time() around its process call.         *)
(***************************************************************************)
\* (time.time() - start) * 1e6 of a process_random_spike, in microseconds
Latencies == {1, 2}

\* the voltages the two chips are pulsed with
PairVoltages == {-1500, 1500}

\* chip c after synapses[i].pulse(voltage) at site s
Pulsed(p, c, s, voltage, roll) ==
    [c EXCEPT !.layers[s[1]][s[2]].synapses[s[3]] = PulseElem(p, @, voltage, roll)]

\* RandomSpiked with the energy of a spike scaled by the measured latency
RandomSpikedBillsLatency(c, l, n, inputs, draw, lat) ==
    LET res == ProcessNeuron(c.layers[l][n], inputs, draw)
    IN  [ chip  |-> [c EXCEPT !.layers[l][n] = res.neuron,
                              !.power_draw = IF res.ret > 0 THEN @ + SPIKE_ENERGY * lat ELSE @],
          spike |-> res.ret,
          ret   |-> lat ]

\* chip c after process_random_spike picked neuron n of layer l, the
\* vector inputs and the draw, and measured the latency lat: the chip, the
\* value process returned and the value the method returns
RandomSpiked(c, l, n, inputs, draw, lat) ==
    LET res == ProcessNeuron(c.layers[l][n], inputs, draw)
    IN  [ chip  |-> [c EXCEPT !.layers[l][n] = res.neuron,
                              !.power_draw = Charged(@, res.ret)],
          spike |-> res.ret,
          ret   |-> lat ]

\* chip c after thermal_simulation(ambient)
Cooled(c, ambient) == [c EXCEPT !.temperature = Thermal(ambient, c.power_draw)]

\* the first chip as a value
Here == ChipOf(layers, total_neurons, temperature, power_draw)

\* the first chip becomes c
Becomes(c) ==
    /\ layers' = c.layers
    /\ total_neurons' = c.total_neurons
    /\ temperature' = c.temperature
    /\ power_draw' = c.power_draw

\* both chips: layers[s].pulse(voltage), the degradation check taking the
\* same draw in both
PairPulse(s, voltage, roll) ==
    /\ budget > 0
    /\ s \in Sites(layers) /\ s \in Sites(twin.layers)
    /\ Becomes(Pulsed(props, Here, s, voltage, roll))
    /\ twin' = Pulsed(props, twin, s, voltage, roll)
    /\ last' = Call("pulse", s, voltage,
                    IF Rolled(SynAt(layers, s)) THEN roll ELSE NoDraw, None, "")
    /\ budget' = budget - 1
    /\ UNCHANGED <<props, mem, latency, tools>>

\* both chips: process_random_spike() under the same draws, each with the
\* latency its own clock readings give
PairRandomSpike(l, n, inputs, draw, lat_here, lat_twin) ==
    /\ budget > 0
    /\ LET a == RandomSpiked(Here, l, n, inputs, draw, lat_here)
           b == RandomSpiked(twin, l, n, inputs, draw, lat_twin)
       IN  /\ Becomes(a.chip)
           /\ twin' = b.chip
           /\ latency' = <<a.ret, b.ret>>
           /\ last' = Call("process_random_spike", <<l, n>>, inputs, draw, a.spike, "")
    /\ budget' = budget - 1
    /\ UNCHANGED <<props, mem, tools>>

\* both chips: thermal_simulation(ambient)
PairThermal(ambient) ==
    /\ budget > 0
    /\ Becomes(Cooled(Here, ambient))
    /\ twin' = Cooled(twin, ambient)
    /\ last' = Call("thermal_simulation", <<>>, ambient, NoDraw, Celsius(temperature'), "")
    /\ budget' = budget - 1
    /\ UNCHANGED <<props, mem, latency, tools>>

PairNext ==
    \/ \E s \in PulseSites, v \in PairVoltages, roll \in Rolls : PairPulse(s, v, roll)
    \/ \E u \in ProcessSites, vec \in StimulusVecs, draw \in Draws,
          lat_here \in Latencies, lat_twin \in Latencies :
          PairRandomSpike(u[1], u[2], vec, draw, lat_here, lat_twin)
    \/ \E a \in Ambients : PairThermal(a)

\* chip and twin are built from the same draws
InitPair ==
    /\ \E seed \in Seeds, aged \in AgedCycles :
          /\ InitChip(DefaultProps, seed, aged)
          /\ twin = NewChip(DefaultProps, seed, aged)
    /\ mem = NewMemristor(DefaultProps, NoTarget, 1000)
    /\ InitCall(MaxPairOps)

\* two chips under the same calls and the same draws
SpecPair == InitPair /\ [][PairNext]_vars

(***************************************************************************)
(* The compiler, one line and one turn of the programming loop at a time.  *)
(***************************************************************************)
\* weights of SYNAPSE lines, in 10^-3: both ends of [0, 1], a weight whose
\* target is already met by 100 kOhm, and weights between
Weights == {0, 100, 250, 500, 750, 900, 910, 999, 1000}

\* a file with every kind of line
MixedFile ==
    << <<";">>, <<>>, <<"NEURON", 0>>, <<"LABEL", "loop">>, <<"SYNAPSE", 0, 1, 900>>,
       <<"WAIT", 5>>, <<"RELEASE", 1, 500>>, <<"SENSOR", 0>> >>

\* the .ofl files compiled
Files == {MixedFile} \cup {<< <<"SYNAPSE", 0, 1, w>> >> : w \in Weights}

\* compile(filename), up to the second pass: the lines are read and the
\* labels recorded
CompileEnter(file) ==
    /\ budget > 0
    /\ compiler.mode = "idle"
    /\ compiler' = [compiler EXCEPT !.mode = "lines", !.lines = file, !.i = 0,
                                    !.labels = LabelsOf(file, @)]
    /\ budget' = budget - 1
    /\ UNCHANGED <<props, pair, mem, chip, vm, last>>

\* one turn of the second pass on a line that is not SYNAPSE
CompileLine ==
    /\ compiler.mode = "lines"
    /\ compiler.i < Len(compiler.lines)
    /\ LET line == compiler.lines[compiler.i + 1]
           cmd  == Cmd(line)
       IN  /\ cmd # "SYNAPSE"
           /\ compiler' =
                 IF cmd = "NEURON"
                 THEN [compiler EXCEPT !.neurons = @ \cup {line[2]}, !.i = @ + 1]
                 ELSE IF cmd = "RELEASE"
                 THEN [compiler EXCEPT !.pulses = Append(@, ActuatePulse(line[2], line[3])),
                                       !.i = @ + 1]
                 ELSE IF cmd = "WAIT"
                 THEN [compiler EXCEPT !.pulses = Append(@, WaitPulse(line[2])), !.i = @ + 1]
                 ELSE [compiler EXCEPT !.i = @ + 1]
    /\ UNCHANGED <<budget, props, pair, mem, chip, vm, last>>

\* _cmd_synapse, up to the loop of _program_resistance; mem is the memristor
\* the pulses of this synapse are generated for, at the 100 kOhm the loop
\* starts its simulation from
CmdSynapse ==
    /\ compiler.mode = "lines"
    /\ compiler.i < Len(compiler.lines)
    /\ Cmd(compiler.lines[compiler.i + 1]) = "SYNAPSE"
    /\ compiler' = [compiler EXCEPT !.mode = "programming",
                                    !.R = PROG_START,
                                    !.target_R = TargetR(compiler.lines[compiler.i + 1][4]),
                                    !.base = Len(compiler.pulses)]
    /\ mem' = NewMemristor(props, NoTarget, 1000)
    /\ UNCHANGED <<budget, props, pair, chip, vm, last>>

\* one turn of the loop of _program_resistance; the generated pulse is
\* applied to the memristor it is for
ProgramStep ==
    /\ compiler.mode = "programming"
    /\ OffTarget(compiler.R, compiler.target_R)
    /\ Len(compiler.pulses) - compiler.base < ProgramCap
    /\ compiler' = [compiler EXCEPT
                       !.pulses = Append(@, ProgramPulse(compiler.R, compiler.target_R)),
                       !.R = ProgramStepped(compiler.R, compiler.target_R)]
    /\ \E roll \in Rolls :
          mem' = PulseElem(props, mem,
                           ProgramPulse(compiler.R, compiler.target_R).voltage, roll)
    /\ UNCHANGED <<budget, props, pair, chip, vm, last>>

\* the loop ends and _program_resistance and _cmd_synapse return
ProgramExit ==
    /\ compiler.mode = "programming"
    /\ ~OffTarget(compiler.R, compiler.target_R)
    /\ compiler' = [compiler EXCEPT !.mode = "lines", !.i = @ + 1]
    /\ UNCHANGED <<budget, props, pair, mem, chip, vm, last>>

\* return self.pulses
CompileReturn ==
    /\ compiler.mode = "lines"
    /\ compiler.i >= Len(compiler.lines)
    /\ compiler' = [compiler EXCEPT !.mode = "idle"]
    /\ last' = Call("compile", <<>>, compiler.lines, NoDraw, compiler.pulses, "")
    /\ UNCHANGED <<budget, props, pair, mem, chip, vm>>

CompileNext ==
    \/ \E file \in Files : CompileEnter(file)
    \/ CompileLine
    \/ CmdSynapse
    \/ ProgramStep
    \/ ProgramExit
    \/ CompileReturn

InitCompile ==
    /\ InitChip(DefaultProps, 0, 0)
    /\ mem = NewMemristor(DefaultProps, NoTarget, 1000)
    /\ twin = None
    /\ InitCall(MaxCompiles)

\* one compiler under compile calls
SpecCompile == InitCompile /\ [][CompileNext]_vars

(***************************************************************************)
(* OsteoflowVM under load_program and run calls.                           *)
(***************************************************************************)
\* pulse lists handed to load_program
Programs ==
    { <<>>,
      <<WaitPulse(2)>>,
      <<SetPulse, WaitPulse(5), ResetPulse>>,
      <<ActuatePulse(1, 500), WaitPulse(1), SetPulse, WaitPulse(3)>> }

\* max_steps arguments of run
StepLimits == {0, 2, RUN_DEFAULT}

\* load_program(pulses)
LoadProgram(pulses) ==
    /\ budget > 0
    /\ vm' = [vm EXCEPT !.program = pulses]
    /\ last' = Call("load_program", <<>>, pulses, NoDraw, None, "")
    /\ budget' = budget - 1
    /\ UNCHANGED <<props, pair, mem, chip, compiler>>

\* run(max_steps): the loop executes program[pc], program[pc + 1], ... one
\* after the other; ret records where it began and how many it executed
Run(max_steps) ==
    /\ budget > 0
    /\ LET n == RunCount(vm, max_steps)
       IN  /\ vm' = [vm EXCEPT !.pc = @ + n,
                                !.current_time = @ + WaitTime(vm.program, vm.pc, n)]
           /\ last' = Call("run", <<>>, max_steps, NoDraw,
                           [from |-> vm.pc, count |-> n], "")
    /\ budget' = budget - 1
    /\ UNCHANGED <<props, pair, mem, chip, compiler>>

VmNext ==
    \/ \E pulses \in Programs : LoadProgram(pulses)
    \/ \E max_steps \in StepLimits : Run(max_steps)

InitVM ==
    /\ InitChip(DefaultProps, 0, 0)
    /\ mem = NewMemristor(DefaultProps, NoTarget, 1000)
    /\ twin = None
    /\ InitCall(MaxVmOps)

\* one VM under load_program and run calls
SpecVM == InitVM /\ [][VmNext]_vars

(***************************************************************************)
(* Malformed configurations: MaterialProperties takes any field values,    *)
(* and neither it nor any constructor checks them.                         *)
(***************************************************************************)
Malformed(p) ==
    \/ p.hfo2_resistance_range[1] > p.hfo2_resistance_range[2]
    \/ p.num_layers <= 0
    \/ p.neurons_per_layer <= 0

Configs ==
    { DefaultProps,
      [DefaultProps EXCEPT !.hfo2_resistance_range = <<R_MAX, R_MIN>>],
      [DefaultProps EXCEPT !.neurons_per_layer = 0],
      [DefaultProps EXCEPT !.num_layers = 0] }

\* a chip and a memristor built under any configuration
InitCfg ==
    /\ \E p \in Configs, seed \in Seeds :
          /\ InitChip(p, seed, 0)
          /\ mem = NewMemristor(p, NoTarget, 1000)
    /\ twin = None
    /\ InitCall(MaxOps)

SpecCfg == InitCfg /\ [][Next]_vars

(***************************************************************************)
(* Properties.                                                             *)
(***************************************************************************)
InRange(r) == R_MIN <= r /\ r <= R_MAX

IsPulse(c) == c.op = "pulse"
IsProcess(c) == c.op \in {"process", "process_random_spike"} /\ c.err = ""

\* C1: every element that has taken at least one pulse has its resistance
\* in [r_min, r_max], whatever resistance it was built with.
C1_PulsedInRange ==
    /\ mem.cycles >= 1 => InRange(mem.resistance)
    /\ \A s \in Sites(layers) :
          SynAt(layers, s).cycles >= 1 => InRange(SynAt(layers, s).resistance)

\* an element built below r_min (its first history entry) has been pulsed
C1_Witness ==
    /\ IsPulse(last)
    /\ mem.cycles >= 1
    /\ mem.history[1][1] < R_MIN
    /\ mem.resistance = R_MIN

\* C2: once a synapse is degraded no call changes any of its fields:
\* degraded stays true; resistance, filament, cycles, history stay as they are.
C2_DegradedFrozen ==
    [][\A s \in Sites(layers) :
          SynAt(layers, s).degraded => SynAt(layers', s) = SynAt(layers, s)]_vars

\* a pulse has been applied to a synapse that was already degraded
C2_Witness ==
    \E s \in Sites(layers) :
        /\ SynAt(layers, s).degraded
        /\ IsPulse(last) /\ last.at = s /\ last.draw = NoDraw
        /\ last.arg = 1500

\* C3: read returns 0 on a degraded element and voltage / resistance
\* otherwise, and changes no field of any element.
C3_ReadValue ==
    [][last'.op = "read" =>
          /\ mem' = mem /\ layers' = layers
          /\ last'.ret = IF mem.degraded THEN 0
                         ELSE (last'.arg * 1000000) \div mem.resistance]_vars

\* the default read of a degraded element returned 0
C3_Witness ==
    /\ last.op = "read" /\ last.arg = READ_DEFAULT
    /\ mem.degraded
    /\ last.ret = 0

\* C4: a process call that fires leaves potential 0 and spike_count one
\* higher; one that does not fire leaves potential 0.9*p + 0.1*c and
\* spike_count as it was.
C4_ProcessPotential ==
    [][IsProcess(last') =>
          LET u   == layers[last'.at[1]][last'.at[2]]
              v   == layers'[last'.at[1]][last'.at[2]]
              pot == (9 * u.potential + TotalCurrent(u, last'.arg)) \div 10
          IN  IF last'.draw < Sigmoid((pot - u.threshold) * STEEPNESS)
              THEN v.potential = 0 /\ v.spike_count = u.spike_count + 1
              ELSE v.potential = pot /\ v.spike_count = u.spike_count]_vars

\* a neuron that fired earlier has integrated a current without firing
C4_Witness ==
    /\ last.op = "process" /\ last.ret = 0
    /\ layers[last.at[1]][last.at[2]].spike_count = 1
    /\ layers[last.at[1]][last.at[2]].potential > 0

\* C5: power_draw starts at 0 and no call lowers it.
C5_PowerMonotone ==
    /\ power_draw = 0
    /\ [][power_draw' >= power_draw]_vars

\* a stimulus that did not fire, after two that did
C5_Witness ==
    /\ last.op = "process_random_spike" /\ last.ret = 0
    /\ power_draw = 2 * SPIKE_ENERGY
    /\ budget = 0

AllNeurons == {<<l, n>> \in (DOMAIN layers) \X (0..(NeuronsPerLayer - 1)) : n \in DOMAIN layers[l]}

TotalSpikes == SumOver([u \in AllNeurons |-> layers[u[1]][u[2]].spike_count], AllNeurons)

\* C6: process_random_spike adds one energy quantum exactly when the
\* selected neuron fired, so power_draw is the quantum times the number of
\* spikes of all neurons.
C6_PowerCountsSpikes ==
    /\ [](power_draw = SPIKE_ENERGY * TotalSpikes)
    /\ [][last'.op = "process_random_spike" =>
            LET u == layers[last'.at[1]][last'.at[2]]
                v == layers'[last'.at[1]][last'.at[2]]
            IN  \/ v.spike_count = u.spike_count + 1 /\ power_draw' = power_draw + SPIKE_ENERGY
                \/ v.spike_count = u.spike_count /\ power_draw' = power_draw]_vars

\* two neurons have fired once each and the last stimulus did not fire
C6_Witness ==
    /\ last.op = "process_random_spike" /\ last.ret = 0
    /\ Cardinality({u \in AllNeurons : layers[u[1]][u[2]].spike_count = 1}) = 2

\* C7, as claimed: a pulse of a voltage in [-1.0, 1.0] on a non-degraded
\* element leaves resistance unchanged and adds one cycle, in every state
\* an element can be built in.
C7_SubThresholdKeeps ==
    [][(IsPulse(last') /\ ~mem.degraded /\ last'.arg >= -SET_ABOVE /\ last'.arg <= SET_ABOVE) =>
          mem'.resistance = mem.resistance /\ mem'.cycles = mem.cycles + 1]_vars

\* C7, amended: such a pulse adds one cycle and leaves resistance clipped
\* into [r_min, r_max]: unchanged when it was already inside (as it is
\* after any earlier pulse), moved to the nearer bound when the element was
\* built outside.
C7_SubThresholdClips ==
    [][(IsPulse(last') /\ ~mem.degraded /\ last'.arg >= -SET_ABOVE /\ last'.arg <= SET_ABOVE) =>
          /\ mem'.cycles = mem.cycles + 1
          /\ InRange(mem.resistance) => mem'.resistance = mem.resistance
          /\ mem.resistance < R_MIN => mem'.resistance = R_MIN
          /\ mem.resistance > R_MAX => mem'.resistance = R_MAX]_vars

\* a pulse of exactly 1.0 V after a SET pulse left the resistance as it was
C7_Witness ==
    /\ IsPulse(last) /\ last.arg = SET_ABOVE
    /\ mem.cycles = 2
    /\ Len(mem.history) = 2 /\ mem.history[2][2] = 2
    /\ mem.history[2][1] < mem.history[1][1]

\* C8, as claimed: on a non-degraded element in any state, a freshly built
\* one included, SET never raises resistance and RESET never lowers it.
C8_SetResetDirection ==
    [][(IsPulse(last') /\ ~mem.degraded) =>
          /\ last'.arg > SET_ABOVE => mem'.resistance <= mem.resistance
          /\ last'.arg < -SET_ABOVE => mem'.resistance >= mem.resistance]_vars

\* C8, amended: that holds whenever resistance is in [r_min, r_max]
\* before the pulse (always after a first pulse); an element built below
\* r_min is raised to r_min by a SET pulse, one built above r_max is lowered
\* to r_max by a RESET pulse.
C8_SetResetDirectionInRange ==
    [][(IsPulse(last') /\ ~mem.degraded) =>
          /\ (last'.arg > SET_ABOVE /\ InRange(mem.resistance)) =>
                mem'.resistance <= mem.resistance
          /\ (last'.arg < -SET_ABOVE /\ InRange(mem.resistance)) =>
                mem'.resistance >= mem.resistance
          /\ (last'.arg > SET_ABOVE /\ mem.resistance < R_MIN) => mem'.resistance = R_MIN
          /\ (last'.arg < -SET_ABOVE /\ mem.resistance > R_MAX) => mem'.resistance = R_MAX]_vars

\* a SET pulse lowered the resistance of an element inside the range
C8_Witness ==
    /\ IsPulse(last) /\ last.arg > SET_ABOVE
    /\ Len(mem.history) >= 2
    /\ InRange(mem.history[Len(mem.history) - 1][1])
    /\ mem.resistance < mem.history[Len(mem.history) - 1][1]

\* the sum over i < min(len(inputs), N) of inputs[i] / resistance[i]
RECURSIVE C9_Sum(_, _, _)
C9_Sum(u, inputs, n) ==
    IF n = 0 THEN 0
    ELSE C9_Sum(u, inputs, n - 1) + (inputs[n] \div u.synapses[n - 1].resistance)

\* C9: the current process integrates is the sum over the positions
\* i < min(len(inputs), N) of inputs[i] / resistance[i], a degraded synapse
\* contributing like any other.
C9_CurrentIgnoresDegraded ==
    [][IsProcess(last') =>
          LET u   == layers[last'.at[1]][last'.at[2]]
              v   == layers'[last'.at[1]][last'.at[2]]
              n   == IF Len(last'.arg) < NumSynapses THEN Len(last'.arg) ELSE NumSynapses
              pot == (9 * u.potential + C9_Sum(u, last'.arg, n)) \div 10
          IN  \/ last'.ret = 0 /\ v.potential = pot
              \/ /\ last'.ret > 0
                 /\ last'.ret = Sigmoid((pot - u.threshold) * STEEPNESS)
                 /\ v.potential = 0]_vars

\* a neuron with a degraded synapse, which reads 0, has integrated the
\* nonzero input at that synapse
C9_Witness ==
    /\ last.op = "process" /\ last.at = <<0, 0>> /\ last.ret = 0
    /\ layers[0][0].synapses[0].degraded
    /\ ReadElem(layers[0][0].synapses[0], READ_DEFAULT) = 0
    /\ Len(last.arg) = 1 /\ last.arg[1] > 0
    /\ layers[0][0].potential > 0

C12_DegradedAfterThreshold ==
    /\ mem.degraded => mem.cycles > DEGRADE_AFTER
    /\ \A s \in Sites(layers) :
          SynAt(layers, s).degraded => SynAt(layers, s).cycles > DEGRADE_AFTER

\* an element that passed its 10000th pulse intact degraded on the 10001st
C12_Witness ==
    /\ IsPulse(last) /\ last.draw = 0
    /\ mem.degraded
    /\ mem.cycles = DEGRADE_AFTER + 1
    /\ budget <= MaxElemOps - 2

\* the envelope __init__ clips into: [0.9 * r_min, 1.1 * r_max]
InEnvelope(r) == (R_MIN * 9) \div 10 <= r /\ r <= (R_MAX * 11) \div 10

Fresh(e) ==
    /\ InEnvelope(e.resistance)
    /\ e.cycles = 0
    /\ e.degraded = FALSE
    /\ e.history = <<<<e.resistance, 1>>>>

\* C13: right after its construction, for every target (given or
\* defaulted) and every deviate, an element has resistance in
\* [0.9 * r_min, 1.1 * r_max], cycles 0, degraded false and the history
\* [resistance]; so has every synapse of a chip just built.
C13_FreshElement ==
    /\ last.op = "new" => Fresh(mem)
    /\ last.op = "init" => \A s \in Sites(layers) : Fresh(SynAt(layers, s))

\* an element built for a target below the envelope, after an earlier
\* element had been pulsed, sits at 0.9 * r_min
C13_Witness ==
    /\ last.op = "new" /\ last.arg = 5000 /\ last.draw = 950
    /\ mem.resistance = (R_MIN * 9) \div 10
    /\ budget <= MaxElemOps - 2

\* C14: get_stats changes no synapse field, no neuron field and not
\* power_draw; all it changes is temperature, which it sets to
\* 300 + 0.1 * power_draw whatever ambient an earlier thermal_simulation
\* was called with.
C14_StatsFrame ==
    [][(last'.op = "get_stats" /\ last'.err = "") =>
          /\ layers' = layers
          /\ power_draw' = power_draw
          /\ total_neurons' = total_neurons
          /\ mem' = mem /\ props' = props
          /\ temperature' = [kelvin |-> AMBIENT_DEFAULT, pico |-> power_draw \div 10]]_vars

\* get_stats as the third call, after a spike; the temperature is at the
\* default ambient plus the heating of that spike
C14_Witness ==
    /\ last.op = "get_stats" /\ last.err = ""
    /\ budget = MaxDriveOps - 3
    /\ power_draw = SPIKE_ENERGY
    /\ temperature = [kelvin |-> AMBIENT_DEFAULT, pico |-> 1]
    /\ last.ret.temperature_C = [kelvin |-> AMBIENT_DEFAULT - KELVIN_OFFSET, pico |-> 1]

\* C15: thermal_simulation(ambient) sets temperature to
\* ambient + 0.1 * power_draw of the current power_draw, returns that
\* temperature minus 273, and leaves power_draw, every neuron and every
\* synapse as they were.
C15_ThermalStep ==
    [][last'.op = "thermal_simulation" =>
          /\ temperature' = [kelvin |-> last'.arg, pico |-> power_draw \div 10]
          /\ last'.ret = [kelvin |-> last'.arg - KELVIN_OFFSET, pico |-> power_draw \div 10]
          /\ power_draw' = power_draw
          /\ layers' = layers
          /\ total_neurons' = total_neurons]_vars

\* thermal_simulation at a non-default ambient after two spikes
C15_Witness ==
    /\ last.op = "thermal_simulation" /\ last.arg = 310
    /\ power_draw = 2 * SPIKE_ENERGY
    /\ temperature = [kelvin |-> 310, pico |-> 2]
    /\ last.ret = [kelvin |-> 310 - KELVIN_OFFSET, pico |-> 2]

\* the firing probability a process call on neuron u computes from inputs
ProbOf(u, inputs) ==
    Sigmoid(((9 * u.potential + TotalCurrent(u, inputs)) \div 10 - u.threshold) * STEEPNESS)

\* C16: every process call returns either exactly 0 or the firing
\* probability it computed, which then lies in (0, 1]; the return is
\* never negative nor above 1, and it is nonzero exactly when spike_count
\* was incremented.
C16_ReturnRange ==
    [][IsProcess(last') =>
          LET u == layers[last'.at[1]][last'.at[2]]
              v == layers'[last'.at[1]][last'.at[2]]
          IN  /\ last'.ret >= 0 /\ last'.ret <= 1000
              /\ last'.ret = 0 \/ last'.ret = ProbOf(u, last'.arg)
              /\ last'.ret # 0 => v.spike_count = u.spike_count + 1
              /\ last'.ret = 0 => v.spike_count = u.spike_count]_vars

\* a call returned a probability strictly between 0 and 1 on a neuron
\* that had already fired
C16_Witness ==
    /\ IsProcess(last)
    /\ last.ret > 0 /\ last.ret < 1000
    /\ layers[last.at[1]][last.at[2]].spike_count = 2

\* C17: the neuron fires exactly when draw < probability, the draw being
\* in [0, 1): at probability 0 it fires for no draw, at probability 1 it
\* fires for every draw.
C17_FiringDecision ==
    [][IsProcess(last') =>
          LET u     == layers[last'.at[1]][last'.at[2]]
              v     == layers'[last'.at[1]][last'.at[2]]
              prob  == ProbOf(u, last'.arg)
              fired == v.spike_count = u.spike_count + 1
          IN  /\ last'.draw >= 0 /\ last'.draw < 1000
              /\ fired <=> last'.draw < prob
              /\ ~fired => v.spike_count = u.spike_count
              /\ prob = 0 => ~fired
              /\ prob = 1000 => fired]_vars

\* the smallest draw did not fire a neuron driven to probability 0, after
\* the largest draw had fired it at probability 1
C17_Witness ==
    /\ last.op = "process" /\ last.draw = 0 /\ last.ret = 0
    /\ last.arg = Vec(NumSynapses, -2000000000)
    /\ layers[last.at[1]][last.at[2]].spike_count = 1
    /\ layers[last.at[1]][last.at[2]].potential < 0

\* inputs cut or filled with zeros to the length of the synapse bank
C18_Fitted(inputs) ==
    [k \in 1..NumSynapses |-> IF k <= Len(inputs) THEN inputs[k] ELSE 0]

\* C18: process takes an input vector of any length without error: a
\* shorter one (the empty one included) leaves the synapses beyond its end
\* without contribution, and the entries of a longer one beyond the
\* synapse bank have no influence on potential, firing or return value;
\* the outcome is that of the vector cut or zero-filled to the bank's length.
C18_AnyLength ==
    [][last'.op = "process" =>
          LET u    == layers[last'.at[1]][last'.at[2]]
              v    == layers'[last'.at[1]][last'.at[2]]
              pot  == (9 * u.potential + C9_Sum(u, C18_Fitted(last'.arg), NumSynapses)) \div 10
              prob == Sigmoid((pot - u.threshold) * STEEPNESS)
          IN  /\ last'.err = ""
              /\ IF last'.draw < prob
                 THEN last'.ret = prob /\ v.potential = 0 /\ v.spike_count = u.spike_count + 1
                 ELSE last'.ret = 0 /\ v.potential = pot /\ v.spike_count = u.spike_count]_vars

\* a vector one entry longer than the bank was integrated without firing,
\* as the second call of the behaviour
C18_Witness ==
    /\ last.op = "process" /\ last.err = "" /\ last.ret = 0
    /\ Len(last.arg) = NumSynapses + 1
    /\ layers[last.at[1]][last.at[2]].potential > 0
    /\ budget <= MaxOps - 2

\* C19: a process call on a neuron, direct or through
\* process_random_spike, changes only that neuron's potential and
\* spike_count (and power_draw, through process_random_spike only): no
\* other neuron changes, the neuron's threshold and synapse bank stay as
\* they are, temperature stays, and no synapse of any neuron changes
\* resistance, filament, cycles, degraded or history.
C19_ProcessFrame ==
    [][IsProcess(last') =>
          LET u == layers[last'.at[1]][last'.at[2]]
              v == layers'[last'.at[1]][last'.at[2]]
          IN  /\ AllNeurons' = AllNeurons
              /\ \A w \in AllNeurons :
                    w # last'.at => layers'[w[1]][w[2]] = layers[w[1]][w[2]]
              /\ v.threshold = u.threshold
              /\ v.id = u.id /\ v.layer = u.layer
              /\ DOMAIN v.synapses = DOMAIN u.synapses
              /\ \A s \in Sites(layers) : SynAt(layers', s) = SynAt(layers, s)
              /\ temperature' = temperature
              /\ total_neurons' = total_neurons
              /\ mem' = mem
              /\ last'.op = "process" => power_draw' = power_draw]_vars

\* a neuron fired while another neuron held an integrated potential and a
\* synapse of the chip had been pulsed 10000 times
C19_Witness ==
    /\ IsProcess(last) /\ last.ret > 0
    /\ \E w \in AllNeurons : w # last.at /\ layers[w[1]][w[2]].potential > 0
    /\ \E s \in Sites(layers) : SynAt(layers, s).cycles = DEGRADE_AFTER

\* C20: the chip holds num_layers layers of neurons_per_layer neurons
\* each, total_neurons = num_layers * neurons_per_layer, and the neuron at
\* index i of layer L has the id L * neurons_per_layer + i and the layer
\* field L, so the ids are unique and sequential; total_neurons never
\* changes after construction.
C20_SequentialIds ==
    /\ [](/\ total_neurons = props.num_layers * props.neurons_per_layer
          /\ DOMAIN layers = 0..(props.num_layers - 1)
          /\ \A L \in DOMAIN layers :
                /\ DOMAIN layers[L] = 0..(props.neurons_per_layer - 1)
                /\ \A i \in DOMAIN layers[L] :
                      /\ layers[L][i].id = L * props.neurons_per_layer + i
                      /\ layers[L][i].layer = L
          /\ \A a, b \in AllNeurons :
                layers[a[1]][a[2]].id = layers[b[1]][b[2]].id => a = b
          /\ {layers[a[1]][a[2]].id : a \in AllNeurons} = 0..(total_neurons - 1))
    /\ [][total_neurons' = total_neurons]_vars

\* the last neuron of the last layer, whose id is total_neurons - 1, has
\* fired and every call of the behaviour has been made
C20_Witness ==
    /\ budget = 0
    /\ layers[NumLayers - 1][NeuronsPerLayer - 1].id = total_neurons - 1
    /\ layers[NumLayers - 1][NeuronsPerLayer - 1].spike_count >= 1
    /\ layers[NumLayers - 1][0].id = (NumLayers - 1) * NeuronsPerLayer

C21_DegradedPercent ==
    [][(last'.op = "get_stats" /\ last'.err = "") =>
          LET broken == Cardinality({s \in Sites(layers) : SynAt(layers, s).degraded})
              count  == Cardinality(Sites(layers))
          IN  /\ last'.ret.degraded_percent = (100 * broken) \div count
              /\ last'.ret.synapses = count
              /\ (\A s \in Sites(layers) : SynAt(layers, s).cycles = 0) =>
                    last'.ret.degraded_percent = 0]_vars

\* get_stats on a chip one synapse of which has degraded on its 10001st
\* pulse
C21_Witness ==
    /\ last.op = "get_stats" /\ last.err = ""
    /\ Cardinality({s \in Sites(layers) : SynAt(layers, s).degraded}) = 1
    /\ last.ret.degraded_percent = 100 \div (NumLayers * NeuronsPerLayer * NumSynapses)
    /\ last.ret.degraded_percent > 0

\* C22: in every state of every element, degraded or not, filament (the
\* stored conductance) is 1 / resistance of the current resistance, also
\* after the pulse on which the element degrades.
C22_FilamentIsReciprocal ==
    /\ mem.filament = 1000000000 \div mem.resistance
    /\ \A s \in Sites(layers) :
          SynAt(layers, s).filament = 1000000000 \div SynAt(layers, s).resistance

\* an element degraded on a SET pulse that lowered its resistance
C22_Witness ==
    /\ IsPulse(last) /\ last.arg > SET_ABOVE /\ last.draw = 0
    /\ mem.degraded
    /\ mem.cycles = DEGRADE_AFTER + 1
    /\ Len(mem.history) >= 2
    /\ mem.resistance < mem.history[Len(mem.history) - 1][1]

\* C26: in every state of every element the history has cycles + 1
\* entries and ends with the current resistance; a pulse extends the
\* history it found (append-only), cycles never decreases and rises by
\* exactly 1 on every pulse applied to a non-degraded element, the pulse
\* on which it degrades included.
C26_HistoryAppendOnly ==
    /\ [](/\ HistLen(mem.history) = mem.cycles + 1
          /\ HistLast(mem.history) = mem.resistance)
    /\ [][last'.op # "new" =>
            /\ HistPrefix(mem.history, mem'.history)
            /\ mem'.cycles >= mem.cycles
            /\ (IsPulse(last') /\ ~mem.degraded) =>
                  /\ mem'.cycles = mem.cycles + 1
                  /\ HistLen(mem'.history) = HistLen(mem.history) + 1
            /\ (IsPulse(last') /\ mem.degraded) => mem'.history = mem.history
            /\ ~IsPulse(last') => mem'.history = mem.history]_vars

\* an element degraded on its 10001st pulse, which changed its resistance,
\* and was pulsed again
C26_Witness ==
    /\ IsPulse(last) /\ last.draw = NoDraw
    /\ mem.degraded
    /\ mem.cycles = DEGRADE_AFTER + 1
    /\ HistLen(mem.history) = DEGRADE_AFTER + 2
    /\ Len(mem.history) >= 2

\* 0.97 ** k, in 10^-6
RECURSIVE C23_Decay(_)
C23_Decay(k) == IF k = 0 THEN 1000000 ELSE (C23_Decay(k - 1) * SET_PCT) \div 100

\* r0 * 0.97 ** k, in ohm
C23_Decayed(r0, k) ==
    ((r0 \div 1000) * C23_Decay(k)) \div 1000 + ((r0 % 1000) * C23_Decay(k)) \div 1000000

\* C23: k SET pulses in a row on a non-degraded element of resistance R0
\* in [r_min, r_max], with cycles + k <= 10000, leave the resistance
\* max(r_min, R0 * 0.97^k) whatever the random draws (to within 10 ohm, the
\* rounding of the arithmetic in whole ohms).
C23_SetPulsesMultiply ==
    LET k  == MaxSetPulses - budget
        r0 == HistAt(mem.history, HistLen(mem.history) - k)
        rk == IF C23_Decayed(r0, k) > R_MIN THEN C23_Decayed(r0, k) ELSE R_MIN
    IN  (k <= mem.cycles /\ InRange(r0) /\ mem.cycles <= DEGRADE_AFTER) =>
            /\ ~mem.degraded
            /\ mem.resistance - rk <= 10
            /\ rk - mem.resistance <= 10

\* five SET pulses on an element built at 100000 ohm
C23_Witness ==
    /\ IsPulse(last) /\ last.arg > SET_ABOVE
    /\ mem.cycles = 5 /\ budget = MaxSetPulses - 5
    /\ mem.history[1] = <<TARGET_R, 1>>
    /\ mem.resistance > 85860 /\ mem.resistance < 85880

\* C24: the loop of _program_resistance ends for every target a weight in
\* [0, 1] gives (10 kOhm to 1 MOhm): it is never still off target after
\* ProgramCap pulses, and it leaves only with R within 1% of the target.
C24_ProgrammingTerminates ==
    /\ [](compiler.mode = "programming" =>
            /\ compiler.target_R >= SYN_R_LOW /\ compiler.target_R <= SYN_R_HIGH
            /\ ~(/\ Len(compiler.pulses) - compiler.base >= ProgramCap
                 /\ Abs(compiler.R - compiler.target_R) * 100 > compiler.target_R))
    /\ [][(compiler.mode = "programming" /\ compiler'.mode # "programming") =>
            /\ Abs(compiler.R - compiler.target_R) * 100 <= compiler.target_R
            /\ compiler'.pulses = compiler.pulses]_vars

\* the loop for weight 1.0 has ended after overshooting the target and
\* alternating RESET and SET
C24_Witness ==
    /\ compiler.mode = "lines" /\ compiler.i = 1
    /\ compiler.target_R = SYN_R_LOW
    /\ Len(compiler.pulses) - compiler.base = 95
    /\ compiler.pulses[Len(compiler.pulses)].type = "RESET"
    /\ compiler.pulses[Len(compiler.pulses) - 1].type = "SET"
    /\ Abs(compiler.R - compiler.target_R) * 100 <= compiler.target_R

\* C25: for every weight in [0, 1] the pulses the compiler generates for a
\* SYNAPSE line, applied in order through pulse to a non-degraded memristor
\* of exactly 100 kOhm, leave its resistance within 1% of
\* target_R = 10e3 + (1e6 - 10e3) * (1 - weight).
C25_PulsesReachTargetOnChip ==
    [][(compiler.mode = "programming" /\ compiler'.mode = "lines") =>
          /\ ~mem.degraded
          /\ Abs(mem.resistance * 10 - compiler.target_R) * 100 <= compiler.target_R]_vars

\* C27: for any sequence of load_program and run calls on one VM, a run
\* after load_program(P) executes P's pulses in index order beginning at
\* P[0], at most max_steps of them, and ends with 0 <= pc <= len(P);
\* current_time grows only by the durations of the executed WAIT pulses.
C27_RunReplaysFromStart ==
    [][(last.op = "load_program" /\ last'.op = "run") =>
          /\ last'.ret.from = 0
          /\ last'.ret.count <= Max(0, last'.arg)
          /\ vm'.pc >= 0
          /\ vm'.pc <= Len(vm.program)
          /\ vm'.current_time - vm.current_time
                = WaitTime(vm.program, last'.ret.from, last'.ret.count)]_vars

\* the pulses the loop of _program_resistance generates from R on
RECURSIVE C28_Programmed(_, _)
C28_Programmed(R, target_R) ==
    IF ~OffTarget(R, target_R) THEN <<>>
    ELSE <<ProgramPulse(R, target_R)>>
         \o C28_Programmed(ProgramStepped(R, target_R), target_R)

\* the pulses one instruction line generates
C28_LinePulses(line) ==
    LET cmd == Cmd(line)
    IN  IF cmd = "SYNAPSE" THEN C28_Programmed(PROG_START, TargetR(line[4]))
        ELSE IF cmd = "RELEASE" THEN <<ActuatePulse(line[2], line[3])>>
        ELSE IF cmd = "WAIT" THEN <<WaitPulse(line[2])>>
        ELSE <<>>

\* the pulses the first n lines generate, in line order
RECURSIVE C28_Lowered(_, _)
C28_Lowered(lines, n) ==
    IF n = 0 THEN <<>>
    ELSE C28_Lowered(lines, n - 1) \o C28_LinePulses(lines[n])

\* C28: compile(file) returns exactly the pulse sequence generated from that
\* file's lines, in line order (comments, blank lines and unrecognized
\* commands emit nothing); so two compile calls of the same file on one
\* instance return the same pulse list.
C28_CompileReturnsFilePulses ==
    [][(compiler.mode = "lines" /\ compiler'.mode = "idle") =>
          /\ last'.op = "compile"
          /\ last'.ret = C28_Lowered(last'.arg, Len(last'.arg))]_vars

====
